---- MODULE Spec2Model ----
(***************************************************************************)
(* State-machine model of the tournament controller of src/Tournament.ts:  *)
(* the base class Tournament (newPlayer, eliminationResult,                *)
(* standardResult, eraseResult, eliminationRemovePlayer) and the three     *)
(* formats Swiss, RoundRobin and Elimination.                              *)
(*                                                                         *)
(* A handler is a function from the tournament t (players, matches,        *)
(* status, currentRound, rounds) to an outcome [t, threw]: the tournament  *)
(* as the handler left it and whether it ended by throwing.  A handler     *)
(* that throws half way (an explicit throw, or a TypeError on a property   *)
(* of undefined) keeps the assignments it made before the throw, exactly   *)
(* as the JavaScript objects do.                                           *)
(*                                                                         *)
(* Points are counted in half points (pointsForWin = 2 models 1,           *)
(* pointsForDraw = 1 models 0.5) so that the arithmetic stays integral.    *)
(* Pairings.*, Tiebreakers.*, Match and Player are imported by             *)
(* Tournament.ts from files that are not part of src/; they are modelled   *)
(* from the specification (sections 3, 4.2 and 4.3).                       *)
(***************************************************************************)
EXTENDS Integers, Sequences, FiniteSets, TLC

VARIABLES
    cfg,            \* the constructor's options (never change)
    players,        \* Tournament.players
    matches,        \* Tournament.matches
    status,         \* Tournament.status
    currentRound,   \* Tournament.currentRound
    rounds,         \* Swiss.rounds
    last,           \* the last call that returned or changed the tournament
    used            \* the number of extra calls made so far (see MaxExtras)

vars == <<cfg, players, matches, status, currentRound, rounds, last, used>>

----------------------------------------------------------------------------
(* Bounds of the model *)

\* game wins (and draws) a reported result may carry: 0..MaxWins
MaxWins == 1
\* calls beyond the plain run of a tournament: removePlayer, eraseResult, a
\* report on a match that is not active, a report before the playoffs of
\* anything but a 1-0 win of playerOne, and a call that throws after it
\* changed the tournament (a call that throws before it changed anything is
\* a stuttering step and costs nothing)
MaxExtras == 1
\* removePlayer calls in the specification of the withdrawals
MaxRemovals == 2
\* players enrolled before the start of a Swiss tournament
MaxRegistered == 9
\* the last round a Swiss tournament is taken to
MaxRound == 4

----------------------------------------------------------------------------
(* Values *)

\* null (an empty slot, no path, no opponent); ids are 1, 2, ...
Null == 0

EmptyResult == [playerOneWins |-> 0, playerTwoWins |-> 0, draws |-> 0]

\* new Player(options)
NewPlayerRecord(id) ==
    [id |-> id, active |-> TRUE, pairingBye |-> FALSE,
     matchCount |-> 0, matchPoints |-> 0, gameCount |-> 0, gamePoints |-> 0,
     results |-> <<>>]

\* new Match(options): active once both slots are filled
NewMatch(id, round, p1, p2, wp, lp) ==
    [id |-> id, round |-> round, playerOne |-> p1, playerTwo |-> p2,
     active |-> (p1 # Null /\ p2 # Null), result |-> EmptyResult,
     winnersPath |-> wp, losersPath |-> lp]

Ok(t) == [t |-> t, threw |-> FALSE]
Throw(t) == [t |-> t, threw |-> TRUE]

\* Math.ceil(bestOf / 2)
ForfeitWins == (cfg.bestOf + 1) \div 2

\* array.findIndex(x => x.id === id) + 1; 0 when find() gives undefined
FindIdx(arr, id) ==
    IF \E i \in 1..Len(arr) : arr[i].id = id
    THEN CHOOSE i \in 1..Len(arr) :
            arr[i].id = id /\ \A j \in 1..(i - 1) : arr[j].id # id
    ELSE 0

\* results.findIndex(res => res.match === id) + 1
FindResult(results, id) ==
    IF \E i \in 1..Len(results) : results[i].match = id
    THEN CHOOSE i \in 1..Len(results) :
            results[i].match = id /\ \A j \in 1..(i - 1) : results[j].match # id
    ELSE 0

\* array.splice(i - 1, 1)
RemoveAt(s, i) == [j \in 1..(Len(s) - 1) |-> IF j < i THEN s[j] ELSE s[j + 1]]

Sum(res) == res[1] + res[2] + (IF Len(res) > 2 THEN res[3] ELSE 0)

----------------------------------------------------------------------------
(* Tournament.eraseResult: reset a result of a match *)

\* lines 456-461 (463-468): take the match's entry off one player's scoreboard.
\* matchCount-- runs before the entry is read, so a player without an entry for
\* the match loses a match count and the read of undefined.matchPoints throws.
EraseEntry(t, pi, mid) ==
    IF pi = 0 THEN Throw(t)
    ELSE LET ri == FindResult(t.players[pi].results, mid) IN
         IF ri = 0
         THEN Throw([t EXCEPT !.players[pi].matchCount = @ - 1])
         ELSE LET e == t.players[pi].results[ri] IN
              Ok([t EXCEPT !.players[pi].matchCount = @ - 1,
                           !.players[pi].matchPoints = @ - e.matchPoints,
                           !.players[pi].gamePoints = @ - e.gamePoints,
                           !.players[pi].gameCount = @ - e.games,
                           !.players[pi].results = RemoveAt(@, ri)])

TournamentEraseResult(t, mi) ==
    LET m == t.matches[mi] IN
    IF m.active THEN Throw(t)
    ELSE IF m.playerOne = Null \/ m.playerTwo = Null THEN Throw(t)
    ELSE LET t1 == [t EXCEPT !.matches[mi].active = TRUE,
                             !.matches[mi].result = EmptyResult]
             p1 == FindIdx(t1.players, m.playerOne)
             p2 == FindIdx(t1.players, m.playerTwo)
             r1 == EraseEntry(t1, p1, m.id)
         IN IF r1.threw THEN r1 ELSE EraseEntry(r1.t, p2, m.id)

----------------------------------------------------------------------------
(* Tournament.eliminationResult *)

\* lines 271-276 (279-284, and the same in Swiss/RoundRobin.eraseResult): take
\* player pid out of match wi; only the playerTwo branch deactivates the match
ClearSlot(t, wi, pid) ==
    IF t.matches[wi].playerOne = pid
    THEN [t EXCEPT !.matches[wi].playerOne = Null]
    ELSE IF t.matches[wi].playerTwo = pid
    THEN [t EXCEPT !.matches[wi].playerTwo = Null, !.matches[wi].active = FALSE]
    ELSE t

\* lines 259-287: reactivate the former winner and loser of match mi and pull
\* them back from the matches they were moved to
PullBack(t, mi) ==
    LET m == t.matches[mi]
        p1 == FindIdx(t.players, m.playerOne)
        p2 == FindIdx(t.players, m.playerTwo)
        oneWon == m.result.playerOneWins > m.result.playerTwoWins
        fw == IF oneWon THEN p1 ELSE p2
        fl == IF oneWon THEN p2 ELSE p1
    IN IF fw = 0 THEN Throw(t)
       ELSE LET t1 == [t EXCEPT !.players[fw].active = TRUE] IN
       IF fl = 0 THEN Throw(t1)
       ELSE LET t2 == [t1 EXCEPT !.players[fl].active = TRUE]
                wi == FindIdx(t2.matches, m.winnersPath)
            IN
       IF wi = 0 THEN Throw(t2)
       ELSE LET t3 == ClearSlot(t2, wi, t2.players[fw].id) IN
       IF m.losersPath = Null THEN Ok(t3)
       ELSE LET li == FindIdx(t3.matches, m.losersPath) IN
            IF li = 0 THEN Throw(t3)
            ELSE Ok(ClearSlot(t3, li, t3.players[fl].id))

\* lines 341-346 (352-357): move player pid into the first empty slot of the
\* match with id target; the match becomes active when playerTwo is filled
Advance(t, target, pid) ==
    LET wi == FindIdx(t.matches, target) IN
    IF wi = 0 THEN Throw(t)
    ELSE IF t.matches[wi].playerOne = Null
    THEN Ok([t EXCEPT !.matches[wi].playerOne = pid])
    ELSE IF t.matches[wi].playerTwo = Null
    THEN Ok([t EXCEPT !.matches[wi].playerTwo = pid, !.matches[wi].active = TRUE])
    ELSE Ok(t)

\* lines 295-308 (311-324): push a results entry on player pi and add it to the
\* scoreboard
PushEntry(t, pi, e) ==
    [t EXCEPT !.players[pi].results = Append(@, e),
              !.players[pi].matchCount = @ + 1,
              !.players[pi].matchPoints = @ + e.matchPoints,
              !.players[pi].gameCount = @ + e.games,
              !.players[pi].gamePoints = @ + e.gamePoints]

EliminationEntry(m, own, other, opp) ==
    [match |-> m.id, round |-> m.round, opponent |-> opp,
     outcome |-> IF own > other THEN "win" ELSE "loss",
     matchPoints |-> IF own > other THEN cfg.pointsForWin ELSE 0,
     gamePoints |-> own * cfg.pointsForWin,
     games |-> own + other]

\* SetEliminationResult without the assignment of line 337: the report on the
\* match without winnersPath leaves the status as it is
SetEliminationResultKeepsStatus(t, mi, res) ==
    LET m == t.matches[mi]
        p1 == FindIdx(t.players, m.playerOne)
        p2 == FindIdx(t.players, m.playerTwo)
        t1 == [t EXCEPT !.matches[mi].result.playerOneWins = res[1]]
    IN IF p1 = 0 THEN Throw(t1)
       ELSE LET t2 == PushEntry(t1, p1, EliminationEntry(m, res[1], res[2], m.playerTwo))
                t3 == [t2 EXCEPT !.matches[mi].result.playerTwoWins = res[2]]
            IN
       IF p2 = 0 THEN Throw(t3)
       ELSE LET t4 == PushEntry(t3, p2, EliminationEntry(m, res[2], res[1], m.playerOne))
                t5 == [t4 EXCEPT !.matches[mi].active = FALSE]
                winner == IF res[1] > res[2] THEN p1 ELSE p2
                loser == IF res[1] > res[2] THEN p2 ELSE p1
            IN
       IF m.winnersPath = Null THEN Ok(t5)
       ELSE LET r6 == Advance(t5, m.winnersPath, t5.players[winner].id) IN
       IF r6.threw THEN r6
       ELSE IF m.losersPath = Null
       THEN Ok([r6.t EXCEPT !.players[loser].active = FALSE])
       ELSE Advance(r6.t, m.losersPath, r6.t.players[loser].id)

\* lines 293-358: record the result and move the players on
SetEliminationResult(t, mi, res) ==
    LET m == t.matches[mi]
        p1 == FindIdx(t.players, m.playerOne)
        p2 == FindIdx(t.players, m.playerTwo)
        t1 == [t EXCEPT !.matches[mi].result.playerOneWins = res[1]]
    IN IF p1 = 0 THEN Throw(t1)
       ELSE LET t2 == PushEntry(t1, p1, EliminationEntry(m, res[1], res[2], m.playerTwo))
                t3 == [t2 EXCEPT !.matches[mi].result.playerTwoWins = res[2]]
            IN
       IF p2 = 0 THEN Throw(t3)
       ELSE LET t4 == PushEntry(t3, p2, EliminationEntry(m, res[2], res[1], m.playerOne))
                t5 == [t4 EXCEPT !.matches[mi].active = FALSE]
                winner == IF res[1] > res[2] THEN p1 ELSE p2
                loser == IF res[1] > res[2] THEN p2 ELSE p1
            IN
       IF m.winnersPath = Null THEN Ok([t5 EXCEPT !.status = "finished"])
       ELSE LET r6 == Advance(t5, m.winnersPath, t5.players[winner].id) IN
       IF r6.threw THEN r6
       ELSE IF m.losersPath = Null
       THEN Ok([r6.t EXCEPT !.players[loser].active = FALSE])
       ELSE Advance(r6.t, m.losersPath, r6.t.players[loser].id)

\* EliminationResult without the test of lines 241-243: equal wins are
\* processed like any other result
EliminationResultAcceptsEqualWins(t, mid, res) ==
    LET mi == FindIdx(t.matches, mid) IN
    IF mi = 0 THEN Throw(t)
    ELSE IF t.matches[mi].active
    THEN SetEliminationResult(t, mi, res)
    ELSE LET r1 == PullBack(t, mi) IN
         IF r1.threw THEN r1
         ELSE LET r2 == TournamentEraseResult(r1.t, mi) IN
              IF r2.threw THEN r2 ELSE SetEliminationResult(r2.t, mi, res)

\* lines 235-359
EliminationResult(t, mid, res) ==
    IF res[1] = res[2] THEN Throw(t)
    ELSE LET mi == FindIdx(t.matches, mid) IN
    IF mi = 0 THEN Throw(t)
    ELSE IF t.matches[mi].active
    THEN SetEliminationResult(t, mi, res)
    ELSE LET r1 == PullBack(t, mi) IN
         IF r1.threw THEN r1
         ELSE LET r2 == TournamentEraseResult(r1.t, mi) IN
              IF r2.threw THEN r2 ELSE SetEliminationResult(r2.t, mi, res)

----------------------------------------------------------------------------
(* Tournament.eliminationRemovePlayer *)

\* matches.find(m => m.round === currentRound && (m.playerOne === pid ||
\* m.playerTwo === pid)), as an index; 0 for undefined
CurrentMatchOf(t, pid) ==
    LET hit(i) == /\ t.matches[i].round = t.currentRound
                  /\ (t.matches[i].playerOne = pid \/ t.matches[i].playerTwo = pid)
    IN IF \E i \in 1..Len(t.matches) : hit(i)
       THEN CHOOSE i \in 1..Len(t.matches) : hit(i) /\ \A j \in 1..(i - 1) : ~hit(j)
       ELSE 0

\* line 496: the first match routed to the match with id nid that does not hold
\* player pid
MoveFromMatch(t, nid, pid) ==
    LET hit(i) == /\ (t.matches[i].winnersPath = nid \/ t.matches[i].losersPath = nid)
                  /\ t.matches[i].playerOne # pid
                  /\ t.matches[i].playerTwo # pid
    IN IF \E i \in 1..Len(t.matches) : hit(i)
       THEN CHOOSE i \in 1..Len(t.matches) : hit(i) /\ \A j \in 1..(i - 1) : ~hit(j)
       ELSE 0

\* lines 491-521: fix the routing of the loser's bracket; mi is the player's
\* match of the current round
FixLosersRouting(t, mi, pid) ==
    LET m == t.matches[mi] IN
    IF m.losersPath = Null THEN Ok(t)
    ELSE LET ni == FindIdx(t.matches, m.losersPath) IN
    IF ni = 0 THEN Throw(t)
    ELSE LET n == t.matches[ni] IN
    IF n.playerTwo = Null
    THEN LET t1 == [t EXCEPT !.matches[ni].playerOne = Null]
             fi == MoveFromMatch(t1, n.id, pid)
         IN IF fi = 0 THEN Throw(t1)
            ELSE IF t1.matches[fi].winnersPath = n.id
            THEN Ok([t1 EXCEPT !.matches[fi].winnersPath = n.winnersPath])
            ELSE Ok([t1 EXCEPT !.matches[fi].losersPath = n.winnersPath])
    ELSE LET t1 == [t EXCEPT !.matches[ni].active = FALSE]
             wi == FindIdx(t1.matches, n.winnersPath)
             other == IF n.playerOne # pid THEN n.playerOne ELSE n.playerTwo
         IN IF wi = 0 THEN Throw(t1)
            ELSE IF t1.matches[wi].playerOne = Null
            THEN Ok([t1 EXCEPT !.matches[wi].playerOne = other])
            ELSE IF t1.matches[wi].playerTwo = Null
            THEN Ok([t1 EXCEPT !.matches[wi].playerTwo = other,
                               !.matches[wi].active = TRUE])
            ELSE Ok(t1)

\* lines 477-523
EliminationRemovePlayer(t, pid) ==
    LET mi == CurrentMatchOf(t, pid) IN
    IF mi = 0 THEN Ok(t)
    ELSE IF t.matches[mi].active
    THEN LET res == IF t.matches[mi].playerOne = pid
                    THEN <<0, ForfeitWins>> ELSE <<ForfeitWins, 0>>
             r1 == EliminationResult(t, t.matches[mi].id, res)
         IN IF r1.threw THEN r1 ELSE FixLosersRouting(r1.t, mi, pid)
    ELSE FixLosersRouting(t, mi, pid)

----------------------------------------------------------------------------
(* Tournament.standardResult *)

\* StandardEntry with the outcome of the elimination path (lines 299-300):
\* equal game wins are a loss worth no match points
StandardEntryWithoutDraw(m, own, other, draws, opp) ==
    [match |-> m.id, round |-> m.round, opponent |-> opp,
     outcome |-> IF own > other THEN "win" ELSE "loss",
     matchPoints |-> IF own > other THEN cfg.pointsForWin ELSE 0,
     gamePoints |-> own * cfg.pointsForWin + draws * cfg.pointsForDraw,
     games |-> own + other + draws]

StandardEntry(m, own, other, draws, opp) ==
    [match |-> m.id, round |-> m.round, opponent |-> opp,
     outcome |-> IF own > other THEN "win" ELSE IF other > own THEN "loss" ELSE "draw",
     matchPoints |-> IF own > other THEN cfg.pointsForWin
                     ELSE IF other > own THEN 0 ELSE cfg.pointsForDraw,
     gamePoints |-> own * cfg.pointsForWin + draws * cfg.pointsForDraw,
     games |-> own + other + draws]

\* SetStandardResult without the assignment of line 421: the draws of the
\* report are left out of the result of the match
SetStandardResultWithoutDraws(t, mi, res) ==
    LET m == t.matches[mi]
        p1 == FindIdx(t.players, m.playerOne)
        p2 == FindIdx(t.players, m.playerTwo)
    IN IF p1 = 0 THEN Throw(t)
       ELSE LET t1 == [t EXCEPT !.players[p1].active = TRUE] IN
       IF p2 = 0 THEN Throw(t1)
       ELSE LET t2 == [t1 EXCEPT !.players[p2].active = TRUE]
                t3 == [t2 EXCEPT !.matches[mi].result.playerOneWins = res[1]]
                t4 == PushEntry(t3, p1, StandardEntry(m, res[1], res[2], res[3], m.playerTwo))
                t5 == [t4 EXCEPT !.matches[mi].result.playerTwoWins = res[2]]
                t6 == PushEntry(t5, p2, StandardEntry(m, res[2], res[1], res[3], m.playerOne))
            IN Ok([t6 EXCEPT !.matches[mi].active = FALSE])

\* lines 383-422: reactivate both players, record the result
SetStandardResult(t, mi, res) ==
    LET m == t.matches[mi]
        p1 == FindIdx(t.players, m.playerOne)
        p2 == FindIdx(t.players, m.playerTwo)
    IN IF p1 = 0 THEN Throw(t)
       ELSE LET t1 == [t EXCEPT !.players[p1].active = TRUE] IN
       IF p2 = 0 THEN Throw(t1)
       ELSE LET t2 == [t1 EXCEPT !.players[p2].active = TRUE]
                t3 == [t2 EXCEPT !.matches[mi].result.playerOneWins = res[1]]
                t4 == PushEntry(t3, p1, StandardEntry(m, res[1], res[2], res[3], m.playerTwo))
                t5 == [t4 EXCEPT !.matches[mi].result.playerTwoWins = res[2]]
                t6 == PushEntry(t5, p2, StandardEntry(m, res[2], res[1], res[3], m.playerOne))
            IN Ok([t6 EXCEPT !.matches[mi].result.draws = res[3],
                             !.matches[mi].active = FALSE])

\* lines 367-423
StandardResult(t, mid, res) ==
    LET mi == FindIdx(t.matches, mid) IN
    IF mi = 0 THEN Throw(t)
    ELSE IF t.matches[mi].active
    THEN SetStandardResult(t, mi, res)
    ELSE LET r1 == TournamentEraseResult(t, mi) IN
         IF r1.threw THEN r1 ELSE SetStandardResult(r1.t, mi, res)

----------------------------------------------------------------------------
(* result and eraseResult of the three formats *)

IsElimination == cfg.format \in {"single elimination", "double elimination"}

\* Swiss.result, RoundRobin.result (draws default to 0) and Elimination.result
Result(t, mid, res) ==
    IF IsElimination \/ t.status = "playoffs"
    THEN EliminationResult(t, mid, <<res[1], res[2]>>)
    ELSE StandardResult(t, mid, res)

\* Swiss.eraseResult; RoundRobin.eraseResult (lines 1186-1236) is the same text.
\* Elimination has no eraseResult.
EraseResult(t, mid) ==
    LET mi == FindIdx(t.matches, mid) IN
    IF mi = 0 THEN Throw(t)
    ELSE IF t.matches[mi].active THEN Throw(t)
    ELSE IF t.status = "playoffs"
    THEN LET r1 == PullBack(t, mi) IN
         IF r1.threw THEN r1 ELSE TournamentEraseResult(r1.t, mi)
    ELSE TournamentEraseResult(t, mi)

----------------------------------------------------------------------------
(* Pairings and Tiebreakers, modelled from the specification (4.2, 4.3) *)

\* the ids of the active players, in the order of the players array
ActiveIds(ps) ==
    LET act == SelectSeq(ps, LAMBDA p : p.active) IN
    [i \in 1..Len(act) |-> act[i].id]

\* Tiebreakers.sort with no tiebreaker configured: matchPoints descending,
\* ties in input order
SortByMatchPoints(ps) ==
    LET n == Len(ps)
        pos(i) == 1 + Cardinality({j \in 1..n :
                        \/ ps[j].matchPoints > ps[i].matchPoints
                        \/ ps[j].matchPoints = ps[i].matchPoints /\ j < i})
    IN [k \in 1..n |-> ps[CHOOSE i \in 1..n : pos(i) = k]]

\* Tournament.standings (lines 171-184): the players, the active ones only by
\* default, in the order of Tiebreakers.sort
Standings(t, activeOnly) ==
    SortByMatchPoints(
        IF activeOnly THEN SelectSeq(t.players, LAMBDA p : p.active) ELSE t.players)

\* the players a bracket is built for, best seed first: the standings in the
\* playoffs, the players array in an elimination tournament
Entrants(t) ==
    IF t.status = "playoffs"
    THEN ActiveIds(SortByMatchPoints(t.players))
    ELSE ActiveIds(t.players)

\* Pairings.singleElimination: bracket size 4 for 3 or 4 entrants (seed 1 has
\* a bye with 3), 1 v 4 and 2 v 3, winners routed to the final; with
\* consolation the semi-final losers are routed to a third-place match
SingleElimination(t) ==
    LET e == Entrants(t)
        b == Len(t.matches)
        r == t.currentRound
        third == IF cfg.consolation THEN b + 4 ELSE Null
        new ==
          IF Len(e) >= 4
          THEN <<NewMatch(b + 1, r, e[1], e[4], b + 3, third),
                 NewMatch(b + 2, r, e[2], e[3], b + 3, third),
                 NewMatch(b + 3, r + 1, Null, Null, Null, Null)>>
               \o (IF cfg.consolation
                   THEN <<NewMatch(b + 4, r + 1, Null, Null, Null, Null)>>
                   ELSE <<>>)
          ELSE IF Len(e) = 3
          THEN <<NewMatch(b + 1, r, e[2], e[3], b + 2, Null),
                 NewMatch(b + 2, r + 1, e[1], Null, Null, Null)>>
          ELSE IF Len(e) = 2
          THEN <<NewMatch(b + 1, r, e[1], e[2], Null, Null)>>
          ELSE <<>>
    IN [t EXCEPT !.matches = @ \o new]

\* Pairings.doubleElimination: the winners' bracket, the losers' bracket and
\* the grand final; the losers of the winners' bracket are routed into the
\* losers' bracket, whose final feeds the grand final
DoubleElimination(t) ==
    LET e == Entrants(t)
        b == Len(t.matches)
        r == t.currentRound
        new ==
          IF Len(e) >= 4
          THEN <<NewMatch(b + 1, r, e[1], e[4], b + 3, b + 4),
                 NewMatch(b + 2, r, e[2], e[3], b + 3, b + 4),
                 NewMatch(b + 3, r + 1, Null, Null, b + 6, b + 5),
                 NewMatch(b + 4, r + 2, Null, Null, b + 5, Null),
                 NewMatch(b + 5, r + 3, Null, Null, b + 6, Null),
                 NewMatch(b + 6, r + 4, Null, Null, Null, Null)>>
          ELSE IF Len(e) = 3
          THEN <<NewMatch(b + 1, r, e[2], e[3], b + 2, b + 3),
                 NewMatch(b + 2, r + 1, e[1], Null, b + 4, b + 3),
                 NewMatch(b + 3, r + 2, Null, Null, b + 4, Null),
                 NewMatch(b + 4, r + 3, Null, Null, Null, Null)>>
          ELSE IF Len(e) = 2
          THEN <<NewMatch(b + 1, r, e[1], e[2], b + 2, b + 2),
                 NewMatch(b + 2, r + 1, Null, Null, Null, Null)>>
          ELSE <<>>
    IN [t EXCEPT !.matches = @ \o new]

\* the circle method: seat k (1..n) of round r (0..n-2); seat 1 is fixed and
\* the others rotate
CircleSeat(ids, r, k) ==
    LET n == Len(ids) IN
    IF k = 1 THEN ids[1] ELSE ids[2 + ((k - 2 + r) % (n - 1))]

\* Pairings.roundRobin: the whole schedule up front, a phantom (null) seat for
\* an odd number of players, a second copy with the sides swapped when double;
\* only the matches of round 1 are active
RoundRobinPairing(t) ==
    LET ps == [i \in 1..Len(t.players) |-> t.players[i].id]
        ids == IF Len(ps) % 2 = 0 THEN ps ELSE Append(ps, Null)
        n == Len(ids)
        half == n \div 2
        b == Len(t.matches)
        first == t.currentRound
        Sched(r, k, swap) ==
            LET one == CircleSeat(ids, r % (n - 1), k)
                two == CircleSeat(ids, r % (n - 1), n + 1 - k)
                m == NewMatch(b + r * half + k, first + r,
                              IF swap THEN two ELSE one,
                              IF swap THEN one ELSE two, Null, Null)
            IN [m EXCEPT !.active = m.active /\ r = 0]
        nr == IF cfg.double THEN 2 * (n - 1) ELSE n - 1
    IN [t EXCEPT !.matches = @ \o
            [x \in 1..(nr * half) |->
                Sched((x - 1) \div half, 1 + ((x - 1) % half),
                      (x - 1) \div half >= n - 1)]]

\* Pairings.swiss: the active players in standings order, the bye (odd number)
\* to the lowest-ranked player without a pairing bye, the others paired
\* neighbour with neighbour
SwissPairing(t) ==
    LET act == SelectSeq(SortByMatchPoints(t.players), LAMBDA p : p.active)
        n == Len(act)
        b == Len(t.matches)
        noBye == {i \in 1..n : ~act[i].pairingBye}
        byeAt == IF n % 2 = 0 THEN 0
                 ELSE IF noBye = {} THEN n
                 ELSE CHOOSE i \in noBye : \A j \in noBye : j <= i
        rest == [i \in 1..(n - (n % 2)) |->
                    IF byeAt # 0 /\ i >= byeAt THEN act[i + 1].id ELSE act[i].id]
        pairs == [k \in 1..(Len(rest) \div 2) |->
                    NewMatch(b + k, t.currentRound, rest[2 * k - 1], rest[2 * k],
                             Null, Null)]
        bye == IF byeAt = 0 THEN <<>>
               ELSE <<NewMatch(b + Len(pairs) + 1, t.currentRound, act[byeAt].id,
                               Null, Null, Null)>>
    IN [t EXCEPT !.matches = @ \o pairs \o bye]

----------------------------------------------------------------------------
(* Byes of a new round *)

ByeEntry(mid, round) ==
    [match |-> mid, round |-> round, opponent |-> Null, outcome |-> "bye",
     matchPoints |-> cfg.pointsForWin,
     gamePoints |-> ForfeitWins * cfg.pointsForWin,
     games |-> ForfeitWins]

\* ProcessBye without the results entry of lines 717-731: only the result of
\* the match is written
ProcessByeWithoutEntry(t, mi, skipEmpty) ==
    LET m == t.matches[mi] IN
    IF skipEmpty /\ m.playerOne = Null /\ m.playerTwo = Null THEN Ok(t)
    ELSE IF m.playerTwo = Null
    THEN Ok([t EXCEPT !.matches[mi].result.playerOneWins = ForfeitWins])
    ELSE Ok([t EXCEPT !.matches[mi].result.playerTwoWins = ForfeitWins])

\* the body of byes.forEach (lines 644-661, 1056-1075) and of the loop of
\* RoundRobin.nextRound (lines 1130-1151), which alone skips an empty match
ProcessBye(t, mi, skipEmpty) ==
    LET m == t.matches[mi] IN
    IF skipEmpty /\ m.playerOne = Null /\ m.playerTwo = Null THEN Ok(t)
    ELSE LET id == IF m.playerTwo = Null THEN m.playerOne ELSE m.playerTwo
             pi == FindIdx(t.players, id)
         IN IF pi = 0 THEN Throw(t)
            ELSE LET t1 == PushEntry(t, pi, ByeEntry(m.id, m.round))
                     t2 == [t1 EXCEPT !.players[pi].pairingBye = TRUE]
                 IN IF m.playerTwo = Null
                    THEN Ok([t2 EXCEPT !.matches[mi].result.playerOneWins = ForfeitWins])
                    ELSE Ok([t2 EXCEPT !.matches[mi].result.playerTwoWins = ForfeitWins])

\* the byes of the current round, taken from the matches as they are before
\* the first bye is processed: matches whose playerTwo is null and, in
\* round-robin, also those whose playerOne is null
ByeIndices(t, either) ==
    SelectSeq([i \in 1..Len(t.matches) |-> i],
              LAMBDA i : /\ t.matches[i].round = t.currentRound
                         /\ \/ t.matches[i].playerTwo = Null
                            \/ either /\ t.matches[i].playerOne = Null)

RECURSIVE ProcessByes(_, _, _)
ProcessByes(t, idx, skipEmpty) ==
    IF idx = <<>> THEN Ok(t)
    ELSE LET r == ProcessBye(t, Head(idx), skipEmpty) IN
         IF r.threw THEN r ELSE ProcessByes(r.t, Tail(idx), skipEmpty)

----------------------------------------------------------------------------
(* start *)

\* Math.ceil(Math.log2(n)) for the player counts of the model
CeilLog2(n) ==
    CHOOSE k \in 0..n : (2 ^ k >= n) /\ (k = 0 \/ 2 ^ (k - 1) < n)

\* SwissStart with the minimum of the other formats: four players
SwissStartWithFour(t) ==
    IF Len(t.players) < 4 THEN Throw(t)
    ELSE LET t1 == [t EXCEPT !.status = "active"]
             t2 == IF t1.rounds = 0
                   THEN [t1 EXCEPT !.rounds = CeilLog2(Len(t1.players))] ELSE t1
             t3 == SwissPairing([t2 EXCEPT !.currentRound = @ + 1])
         IN ProcessByes(t3, ByeIndices(t3, FALSE), FALSE)

\* Swiss.startEvent
SwissStart(t) ==
    IF Len(t.players) < 8 THEN Throw(t)
    ELSE LET t1 == [t EXCEPT !.status = "active"]
             t2 == IF t1.rounds = 0
                   THEN [t1 EXCEPT !.rounds = CeilLog2(Len(t1.players))] ELSE t1
             t3 == SwissPairing([t2 EXCEPT !.currentRound = @ + 1])
         IN ProcessByes(t3, ByeIndices(t3, FALSE), FALSE)

\* RoundRobin.startEvent
RoundRobinStart(t) ==
    IF Len(t.players) < 4 THEN Throw(t)
    ELSE LET t1 == [t EXCEPT !.status = "active"]
             t2 == RoundRobinPairing([t1 EXCEPT !.currentRound = @ + 1])
         IN ProcessByes(t2, ByeIndices(t2, TRUE), FALSE)

\* Elimination.startEvent
EliminationStart(t) ==
    IF Len(t.players) < 4 THEN Throw(t)
    ELSE LET t1 == [t EXCEPT !.status = "active", !.currentRound = @ + 1] IN
         IF cfg.double THEN Ok(DoubleElimination(t1)) ELSE Ok(SingleElimination(t1))

StartEvent(t) ==
    IF cfg.format = "swiss" THEN SwissStart(t)
    ELSE IF IsElimination THEN EliminationStart(t)
    ELSE RoundRobinStart(t)

----------------------------------------------------------------------------
(* nextRound *)

\* ApplyCut with the points test of line 688 (1102) as matchPoints <= limit
ApplyCutAtLimit(t) ==
    IF cfg.cut.type = "points" /\ cfg.cut.limit # 0
    THEN [t EXCEPT !.players =
            [i \in 1..Len(@) |->
                IF @[i].matchPoints <= cfg.cut.limit
                THEN [@[i] EXCEPT !.active = FALSE] ELSE @[i]]]
    ELSE IF cfg.cut.type = "rank" /\ cfg.cut.limit # 0
    THEN LET sorted == ActiveIds(SortByMatchPoints(t.players))
             out == {sorted[k] : k \in (cfg.cut.limit + 1)..Len(sorted)}
         IN [t EXCEPT !.players =
                [i \in 1..Len(@) |->
                    IF @[i].id \in out THEN [@[i] EXCEPT !.active = FALSE] ELSE @[i]]]
    ELSE t

\* lines 686-698 (1100-1112): deactivate the players that miss the cut
ApplyCut(t) ==
    IF cfg.cut.type = "points" /\ cfg.cut.limit # 0
    THEN [t EXCEPT !.players =
            [i \in 1..Len(@) |->
                IF @[i].matchPoints < cfg.cut.limit
                THEN [@[i] EXCEPT !.active = FALSE] ELSE @[i]]]
    ELSE IF cfg.cut.type = "rank" /\ cfg.cut.limit # 0
    THEN LET sorted == ActiveIds(SortByMatchPoints(t.players))
             out == {sorted[k] : k \in (cfg.cut.limit + 1)..Len(sorted)}
         IN [t EXCEPT !.players =
                [i \in 1..Len(@) |->
                    IF @[i].id \in out THEN [@[i] EXCEPT !.active = FALSE] ELSE @[i]]]
    ELSE t

\* lines 685-705 (1099-1119): the stage is over, start the playoffs
StartPlayoffs(t) ==
    LET t1 == ApplyCut([t EXCEPT !.status = "playoffs"])
        t2 == [t1 EXCEPT !.currentRound = @ + 1]
    IN IF cfg.playoffs = "single elimination"
       THEN Ok(SingleElimination(t2)) ELSE Ok(DoubleElimination(t2))

AnyActiveMatch(t) == \E i \in 1..Len(t.matches) : t.matches[i].active

\* SwissNextRound without the status test of lines 675-677
SwissNextRoundInAnyStatus(t) ==
    IF AnyActiveMatch(t) THEN Throw(t)
    ELSE IF t.currentRound = t.rounds
    THEN IF cfg.playoffs = "none"
         THEN Ok([t EXCEPT !.status = "finished"]) ELSE StartPlayoffs(t)
    ELSE LET t1 == SwissPairing([t EXCEPT !.currentRound = @ + 1]) IN
         ProcessByes(t1, ByeIndices(t1, FALSE), FALSE)

\* Swiss.nextRound
SwissNextRound(t) ==
    IF AnyActiveMatch(t) THEN Throw(t)
    ELSE IF t.status # "active" THEN Throw(t)
    ELSE IF t.currentRound = t.rounds
    THEN IF cfg.playoffs = "none"
         THEN Ok([t EXCEPT !.status = "finished"]) ELSE StartPlayoffs(t)
    ELSE LET t1 == SwissPairing([t EXCEPT !.currentRound = @ + 1]) IN
         ProcessByes(t1, ByeIndices(t1, FALSE), FALSE)

\* matches.reduce((max, m) => Math.max(max, m.round), 0)
LastRound(t) ==
    IF t.matches = <<>> THEN 0
    ELSE CHOOSE r \in {t.matches[i].round : i \in 1..Len(t.matches)} :
            \A i \in 1..Len(t.matches) : t.matches[i].round <= r

\* RoundRobinNextRound with the filter of line 1125 on the slots only: the
\* filled matches of every round are activated
RoundRobinNextRoundActivatesAll(t) ==
    IF AnyActiveMatch(t) THEN Throw(t)
    ELSE IF t.status # "active" THEN Throw(t)
    ELSE IF t.currentRound = LastRound(t)
    THEN IF cfg.playoffs = "none"
         THEN Ok([t EXCEPT !.status = "finished"]) ELSE StartPlayoffs(t)
    ELSE LET t1 == [t EXCEPT !.currentRound = @ + 1]
             t2 == [t1 EXCEPT !.matches =
                      [i \in 1..Len(@) |->
                          IF @[i].playerOne # Null /\ @[i].playerTwo # Null
                          THEN [@[i] EXCEPT !.active = TRUE] ELSE @[i]]]
         IN ProcessByes(t2, ByeIndices(t2, TRUE), TRUE)

\* RoundRobin.nextRound
RoundRobinNextRound(t) ==
    IF AnyActiveMatch(t) THEN Throw(t)
    ELSE IF t.status # "active" THEN Throw(t)
    ELSE IF t.currentRound = LastRound(t)
    THEN IF cfg.playoffs = "none"
         THEN Ok([t EXCEPT !.status = "finished"]) ELSE StartPlayoffs(t)
    ELSE LET t1 == [t EXCEPT !.currentRound = @ + 1]
             t2 == [t1 EXCEPT !.matches =
                      [i \in 1..Len(@) |->
                          IF /\ @[i].round = t1.currentRound
                             /\ @[i].playerOne # Null
                             /\ @[i].playerTwo # Null
                          THEN [@[i] EXCEPT !.active = TRUE] ELSE @[i]]]
         IN ProcessByes(t2, ByeIndices(t2, TRUE), TRUE)

\* Elimination has no nextRound
NextRoundOf(t) ==
    IF cfg.format = "swiss" THEN SwissNextRound(t) ELSE RoundRobinNextRound(t)

----------------------------------------------------------------------------
(* addPlayer *)

\* Tournament.newPlayer: the status test compares with capitalised names
NewPlayer(t, id) ==
    IF cfg.playerLimit > 0 /\ Len(t.players) = cfg.playerLimit THEN Throw(t)
    ELSE IF t.status \in {"Playoffs", "Aborted", "Finished"} THEN Throw(t)
    ELSE IF FindIdx(t.players, id) # 0 THEN Throw(t)
    ELSE IF t.status # "registration" /\ cfg.format # "swiss" THEN Throw(t)
    ELSE Ok([t EXCEPT !.players = Append(@, NewPlayerRecord(id))])

\* LateEntry with the entry of the losses branch (lines 877-885) in both
\* branches: a missed round never awards points
LateEntryWithoutPoints(round, byes) ==
    [match |-> 0 - round, round |-> round, opponent |-> Null,
     outcome |-> IF byes THEN "bye" ELSE "loss",
     matchPoints |-> 0, gamePoints |-> 0, games |-> ForfeitWins]

\* lines 861-889: the entry of a missed round; the match made for it is not
\* put into the matches array, its id (a fresh random string) is modelled by
\* the negated round number
LateEntry(round, byes) ==
    IF byes THEN ByeEntry(0 - round, round)
    ELSE [match |-> 0 - round, round |-> round, opponent |-> Null,
          outcome |-> "loss", matchPoints |-> 0, gamePoints |-> 0,
          games |-> ForfeitWins]

RECURSIVE LateEntries(_, _, _, _)
LateEntries(t, pi, round, byes) ==
    IF round > t.currentRound THEN t
    ELSE LET t1 == IF byes
                   THEN [PushEntry(t, pi, LateEntry(round, TRUE))
                            EXCEPT !.players[pi].pairingBye = TRUE]
                   ELSE [t EXCEPT !.players[pi].results =
                                      Append(@, LateEntry(round, FALSE)),
                                  !.players[pi].matchCount = @ + 1,
                                  !.players[pi].gameCount = @ + ForfeitWins]
         IN LateEntries(t1, pi, round + 1, byes)

\* Swiss.addPlayer; RoundRobin.addPlayer and Elimination.addPlayer end after
\* newPlayer
AddPlayerTo(t, id, byes) ==
    LET r == NewPlayer(t, id) IN
    IF r.threw THEN r
    ELSE IF cfg.format = "swiss" /\ r.t.status = "active"
    THEN Ok(LateEntries(r.t, Len(r.t.players), 1, byes))
    ELSE r

----------------------------------------------------------------------------
(* removePlayer *)

\* lines 1305-1312: empty the player's slot in the matches of the rounds after
\* the current one and before the last one
RECURSIVE ClearFuture(_, _, _)
ClearFuture(t, pid, round) ==
    IF round >= LastRound(t) THEN Ok(t)
    ELSE LET hit(i) == /\ t.matches[i].round = round
                       /\ (t.matches[i].playerOne = pid \/ t.matches[i].playerTwo = pid)
         IN IF ~\E i \in 1..Len(t.matches) : hit(i) THEN Throw(t)
            ELSE LET fi == CHOOSE i \in 1..Len(t.matches) :
                                hit(i) /\ \A j \in 1..(i - 1) : ~hit(j)
                     t1 == IF t.matches[fi].playerOne = pid
                           THEN [t EXCEPT !.matches[fi].playerOne = Null]
                           ELSE [t EXCEPT !.matches[fi].playerTwo = Null]
                 IN ClearFuture(t1, pid, round + 1)

\* StageRemove without the forfeit of lines 927-933: the player is deactivated
\* and the current-round match is left as it is
StageRemoveWithoutForfeit(t, pi) ==
    Ok([t EXCEPT !.players[pi].active = FALSE])

\* lines 927-935 (1297-1313): forfeit the player's active match of the current
\* round on the standard path and deactivate the player
StageRemove(t, pi) ==
    LET pid == t.players[pi].id
        mi == CurrentMatchOf(t, pid)
        r1 == IF mi # 0 /\ t.matches[mi].active
              THEN StandardResult(t, t.matches[mi].id,
                       IF t.matches[mi].playerOne = pid
                       THEN <<0, ForfeitWins, 0>> ELSE <<ForfeitWins, 0, 0>>)
              ELSE Ok(t)
        r2 == IF r1.threw \/ cfg.format = "swiss" THEN r1
              ELSE ClearFuture(r1.t, pid, r1.t.currentRound + 1)
    IN IF r2.threw THEN r2 ELSE Ok([r2.t EXCEPT !.players[pi].active = FALSE])

\* RemovePlayerFrom without the test of lines 917-919: a finished or aborted
\* tournament is treated like a running one
RemovePlayerFromWhenOver(t, id) ==
    LET pi == FindIdx(t.players, id) IN
    IF pi = 0 THEN Throw(t)
    ELSE IF ~t.players[pi].active THEN Throw(t)
    ELSE IF t.status = "registration"
    THEN Ok([t EXCEPT !.players = RemoveAt(@, pi)])
    ELSE IF IsElimination \/ t.status = "playoffs"
    THEN EliminationRemovePlayer(t, id)
    ELSE StageRemove(t, pi)

\* Swiss.removePlayer, RoundRobin.removePlayer, Elimination.removePlayer
RemovePlayerFrom(t, id) ==
    LET pi == FindIdx(t.players, id) IN
    IF pi = 0 THEN Throw(t)
    ELSE IF ~t.players[pi].active THEN Throw(t)
    ELSE IF t.status \in {"finished", "aborted"} THEN Throw(t)
    ELSE IF t.status = "registration"
    THEN Ok([t EXCEPT !.players = RemoveAt(@, pi)])
    ELSE IF IsElimination \/ t.status = "playoffs"
    THEN EliminationRemovePlayer(t, id)
    ELSE StageRemove(t, pi)

----------------------------------------------------------------------------
(* The state machine *)

\* the tournament as one value
T == [players |-> players, matches |-> matches, status |-> status,
      currentRound |-> currentRound, rounds |-> rounds]

BaseConfig ==
    [format |-> "single elimination", double |-> FALSE, consolation |-> FALSE,
     playerLimit |-> 4, pointsForWin |-> 2, pointsForDraw |-> 1, rounds |-> 0,
     playoffs |-> "none", bestOf |-> 1, cut |-> [type |-> "none", limit |-> 0]]

\* new Elimination({...}): single, single with consolation, double
EliminationConfigs ==
    {BaseConfig,
     [BaseConfig EXCEPT !.consolation = TRUE],
     [BaseConfig EXCEPT !.format = "double elimination", !.double = TRUE]}

\* new RoundRobin({...}) with single-elimination playoffs: without and with
\* the consolation match, and with a cut to the two best players
PlayoffConfigs ==
    LET rr == [BaseConfig EXCEPT !.format = "round robin", !.bestOf = 3,
                                 !.playoffs = "single elimination"] IN
    {rr, [rr EXCEPT !.consolation = TRUE],
     [rr EXCEPT !.cut = [type |-> "rank", limit |-> 2]]}

\* the constructor (lines 151-163, 615-619)
InitWith(configs) ==
    /\ cfg \in configs
    /\ players = <<>>
    /\ matches = <<>>
    /\ status = "registration"
    /\ currentRound = 0
    /\ rounds = cfg.rounds
    /\ last = [op |-> "new", threw |-> FALSE]
    /\ used = 0

\* the state after a call with outcome out.  A call that throws before it
\* changed anything leaves every variable as it is (a stuttering step).
Commit(op, out, extra, cap) ==
    /\ extra => used < cap
    /\ out.threw => out.t # T /\ used < cap
    /\ players' = out.t.players
    /\ matches' = out.t.matches
    /\ status' = out.t.status
    /\ currentRound' = out.t.currentRound
    /\ rounds' = out.t.rounds
    /\ last' = [op |-> op, threw |-> out.threw]
    /\ used' = IF extra \/ out.threw THEN used + 1 ELSE used
    /\ UNCHANGED cfg

PlayerIds == {players[i].id : i \in 1..Len(players)}
MatchIds == {matches[i].id : i \in 1..Len(matches)}

\* the id supplier: an id no player carries
FreshId == CHOOSE id \in 1..(Len(players) + 1) : id \notin PlayerIds

\* an id no match carries
UnknownMatch == Len(matches) + 1

\* the results a caller may report: at least one game was played
Results ==
    {r \in (0..MaxWins) \X (0..MaxWins) \X (0..MaxWins) : r[1] + r[2] + r[3] >= 1}

\* the result of a plain run before the playoffs
PlainResult == <<1, 0, 0>>

IsActiveMatch(mid) ==
    \E i \in 1..Len(matches) : matches[i].id = mid /\ matches[i].active

\* a bracket is being played (or was): an elimination tournament, or the
\* playoffs of a round-robin or Swiss tournament
InBracket == IsElimination \/ status \in {"playoffs", "finished"}

AddPlayer ==
    \E id \in PlayerIds \cup {FreshId}, byes \in BOOLEAN :
        Commit("addPlayer", AddPlayerTo(T, id, byes), FALSE, MaxExtras)

\* start is called once, on a tournament in registration
Start ==
    /\ status = "registration"
    /\ Commit("start", StartEvent(T), FALSE, MaxExtras)

NextRound ==
    /\ ~IsElimination
    /\ Commit("nextRound", NextRoundOf(T), FALSE, MaxExtras)

ReportResult ==
    \E mid \in MatchIds \cup {UnknownMatch}, res \in Results :
        /\ (IsElimination \/ status = "playoffs") => res[3] = 0
        /\ Commit("reportResult", Result(T, mid, res),
                  ~IsActiveMatch(mid) \/ (~InBracket /\ res # PlainResult),
                  MaxExtras)

EraseResultCall ==
    /\ ~IsElimination
    /\ \E mid \in MatchIds \cup {UnknownMatch} :
          Commit("eraseResult", EraseResult(T, mid), TRUE, MaxExtras)

RemovePlayer ==
    \E id \in PlayerIds \cup {FreshId} :
        Commit("removePlayer", RemovePlayerFrom(T, id), TRUE, MaxExtras)

\* a round-robin tournament without playoffs
Init == InitWith({[BaseConfig EXCEPT !.format = "round robin", !.bestOf = 3]})
Next ==
    \/ AddPlayer
    \/ Start
    \/ NextRound
    \/ ReportResult
    \/ EraseResultCall
    \/ RemovePlayer
Spec == Init /\ [][Next]_vars

\* the rounds before the playoffs, played without incident: every match of the
\* round is reported as won by playerOne, then the next round is started
StageReport ==
    /\ ~InBracket
    /\ \E mid \in MatchIds :
          /\ IsActiveMatch(mid)
          /\ Commit("reportResult", Result(T, mid, PlainResult), FALSE, 0)

StageNextRound ==
    /\ ~InBracket
    /\ Commit("nextRound", NextRoundOf(T), FALSE, 0)

BracketReport == InBracket /\ ReportResult

BracketErase == InBracket /\ EraseResultCall

BracketRemove == InBracket /\ RemovePlayer

\* the brackets: an elimination tournament, and the playoffs of a round-robin
\* tournament whose rounds were played without incident
InitBracket == InitWith(EliminationConfigs \cup PlayoffConfigs)
NextBracket ==
    \/ AddPlayer
    \/ Start
    \/ StageReport
    \/ StageNextRound
    \/ BracketReport
    \/ BracketErase
    \/ BracketRemove
SpecBracket == InitBracket /\ [][NextBracket]_vars

\* a result reported on an active match
ReportActive ==
    \E mid \in MatchIds, res \in Results :
        /\ IsActiveMatch(mid)
        /\ (IsElimination \/ status = "playoffs") => res[3] = 0
        /\ Commit("reportResult", Result(T, mid, res), FALSE, MaxRemovals)

\* a withdrawal once the tournament has started
Withdraw ==
    /\ status # "registration"
    /\ \E id \in PlayerIds :
          Commit("removePlayer", RemovePlayerFrom(T, id), TRUE, MaxRemovals)

\* an elimination tournament in which active matches are reported and players
\* withdraw
InitWithdrawals == InitWith(EliminationConfigs)
NextWithdrawals ==
    \/ AddPlayer
    \/ Start
    \/ ReportActive
    \/ Withdraw
SpecWithdrawals == InitWithdrawals /\ [][NextWithdrawals]_vars

\* new Swiss({...}): two rounds without playoffs, and one round followed by
\* single-elimination playoffs of the four best players
SwissConfigs ==
    LET sw == [BaseConfig EXCEPT !.format = "swiss", !.bestOf = 3,
                                 !.playerLimit = 0] IN
    {[sw EXCEPT !.rounds = 2],
     [sw EXCEPT !.rounds = 1, !.playoffs = "single elimination",
                !.cut = [type |-> "rank", limit |-> 4]]}

\* addPlayer before the start, up to MaxRegistered players
Register ==
    /\ status = "registration"
    /\ Len(players) < MaxRegistered
    /\ AddPlayer

\* addPlayer after the start
LateAddPlayer ==
    /\ status # "registration"
    /\ \E id \in PlayerIds \cup {FreshId}, byes \in BOOLEAN :
          Commit("addPlayer", AddPlayerTo(T, id, byes), TRUE, MaxExtras)

\* start on a tournament that was started before
StartAgain ==
    /\ status # "registration"
    /\ currentRound < MaxRound
    /\ Commit("start", StartEvent(T), TRUE, MaxExtras)

\* nextRound, up to round MaxRound
NextSwissRound ==
    /\ currentRound < MaxRound
    /\ NextRound

\* the first active match of the matches array (0 without one)
FirstActive ==
    IF \E i \in 1..Len(matches) : matches[i].active
    THEN matches[CHOOSE i \in 1..Len(matches) :
                    matches[i].active /\ \A j \in 1..(i - 1) : ~matches[j].active].id
    ELSE 0

\* reportResult: the plain run reports the active matches in the order of the
\* matches array, each as a 1-0 win of playerOne; any other report is an extra
\* call
SwissReport ==
    \E mid \in MatchIds \cup {UnknownMatch}, res \in Results :
        /\ status = "playoffs" => res[3] = 0
        /\ Commit("reportResult", Result(T, mid, res),
                  ~(mid = FirstActive /\ res = PlainResult), MaxExtras)

\* a Swiss tournament
InitSwiss == InitWith(SwissConfigs)
NextSwiss ==
    \/ Register
    \/ LateAddPlayer
    \/ Start
    \/ StartAgain
    \/ NextSwissRound
    \/ SwissReport
    \/ EraseResultCall
    \/ RemovePlayer
SpecSwiss == InitSwiss /\ [][NextSwiss]_vars

\* new RoundRobin({...}) and new Swiss({...}) with single-elimination playoffs
\* after a cut: by points (two wins, one win) and by rank (two, four players)
CutConfigs ==
    LET rr == [BaseConfig EXCEPT !.format = "round robin", !.bestOf = 3,
                                 !.playoffs = "single elimination"]
        sw == [BaseConfig EXCEPT !.format = "swiss", !.bestOf = 3,
                                 !.playerLimit = 0, !.rounds = 1,
                                 !.playoffs = "single elimination"]
    IN {[rr EXCEPT !.cut = [type |-> "points", limit |-> 2 * BaseConfig.pointsForWin]],
        [rr EXCEPT !.cut = [type |-> "rank", limit |-> 2]],
        [sw EXCEPT !.cut = [type |-> "points", limit |-> BaseConfig.pointsForWin]],
        [sw EXCEPT !.cut = [type |-> "rank", limit |-> 4]]}

\* a tournament whose playoffs follow a cut
InitCut == InitWith(CutConfigs)
NextCut ==
    \/ Register
    \/ Start
    \/ NextRound
    \/ ReportResult
    \/ EraseResultCall
    \/ RemovePlayer
SpecCut == InitCut /\ [][NextCut]_vars

----------------------------------------------------------------------------
(* Properties *)

RECURSIVE SumSeq(_)
SumSeq(s) == IF s = <<>> THEN 0 ELSE Head(s) + SumSeq(Tail(s))

\* the four fields of the tournament the properties compare
SameTournament(a, b) ==
    /\ a.players = b.players
    /\ a.matches = b.matches
    /\ a.status = b.status
    /\ a.currentRound = b.currentRound

\* C1: after any sequence of calls, failing calls included, every player's
\* matchCount is the number of its results entries and its matchPoints,
\* gamePoints and gameCount are the sums of the entries' matchPoints,
\* gamePoints and games.
ScoreboardIsSumOfResults ==
    \A i \in 1..Len(players) :
        LET p == players[i]
            col(f) == [j \in 1..Len(p.results) |-> p.results[j][f]]
        IN /\ p.matchCount = Len(p.results)
           /\ p.matchPoints = SumSeq(col("matchPoints"))
           /\ p.gamePoints = SumSeq(col("gamePoints"))
           /\ p.gameCount = SumSeq(col("games"))

\* C2: a call of start, nextRound, reportResult, eraseResult, addPlayer or
\* removePlayer that throws leaves players, matches, status and currentRound
\* as they were before the call.
FailedCallChangesNothing ==
    /\ StartEvent(T).threw => SameTournament(StartEvent(T).t, T)
    /\ NextRoundOf(T).threw => SameTournament(NextRoundOf(T).t, T)
    /\ \A mid \in MatchIds \cup {UnknownMatch}, res \in Results :
          Result(T, mid, res).threw => SameTournament(Result(T, mid, res).t, T)
    /\ \A mid \in MatchIds \cup {UnknownMatch} :
          EraseResult(T, mid).threw => SameTournament(EraseResult(T, mid).t, T)
    /\ \A id \in PlayerIds \cup {FreshId}, byes \in BOOLEAN :
          AddPlayerTo(T, id, byes).threw
              => SameTournament(AddPlayerTo(T, id, byes).t, T)
    /\ \A id \in PlayerIds \cup {FreshId} :
          RemovePlayerFrom(T, id).threw
              => SameTournament(RemovePlayerFrom(T, id).t, T)

\* C3: for an active match M of the Swiss/round-robin rounds or of the
\* playoffs (the match without winnersPath included), reportResult(M, r)
\* followed at once by eraseResult(M) gives back the players, matches, status
\* and currentRound of before the report.
ReportThenEraseRestores ==
    \A mid \in MatchIds, res \in Results :
        LET reported == Result(T, mid, res)
            erased == EraseResult(reported.t, mid)
        IN ~IsElimination /\ IsActiveMatch(mid) /\ ~reported.threw
              => ~erased.threw /\ SameTournament(erased.t, T)

FinishedHasNoActiveMatch ==
    status = "finished" => \A i \in 1..Len(matches) : ~matches[i].active

\* C6: every match with both slots filled and a recorded result has, for each
\* of its two players, exactly one results entry for the match, and that
\* entry names the player of the other slot as the opponent.
RecordedMatchHasItsEntries ==
    \A i \in 1..Len(matches) :
        LET m == matches[i]
            entries(pid) ==
                LET rs == players[FindIdx(players, pid)].results IN
                {j \in 1..Len(rs) : rs[j].match = m.id}
            good(pid, opp) ==
                /\ FindIdx(players, pid) # 0
                /\ Cardinality(entries(pid)) = 1
                /\ \A j \in entries(pid) :
                      players[FindIdx(players, pid)].results[j].opponent = opp
        IN m.playerOne # Null /\ m.playerTwo # Null /\ m.result # EmptyResult
              => good(m.playerOne, m.playerTwo) /\ good(m.playerTwo, m.playerOne)

\* the rounds of a Swiss or round-robin tournament are being played
InStage == ~IsElimination /\ status = "active"

\* C7: in the Swiss/round-robin rounds a second report replaces the first:
\* reportResult(M, r1) then reportResult(M, r2) gives the players and matches
\* of reportResult(M, r2) alone, and so does report, erase, report; each
\* player of M then holds exactly one results entry for M.
ReReportReplaces ==
    \A mid \in MatchIds, r1 \in Results, r2 \in Results :
        LET first == Result(T, mid, r1)
            again == Result(first.t, mid, r2)
            erased == EraseResult(first.t, mid)
            afterErase == Result(erased.t, mid, r2)
            alone == Result(T, mid, r2)
            one(t, pid) ==
                LET rs == t.players[FindIdx(t.players, pid)].results IN
                Cardinality({j \in 1..Len(rs) : rs[j].match = mid}) = 1
            m == matches[FindIdx(matches, mid)]
        IN InStage /\ IsActiveMatch(mid) /\ ~first.threw
              => /\ ~again.threw /\ ~alone.threw
                 /\ again.t.players = alone.t.players
                 /\ again.t.matches = alone.t.matches
                 /\ ~erased.threw /\ ~afterErase.threw
                 /\ afterErase.t.players = alone.t.players
                 /\ afterErase.t.matches = alone.t.matches
                 /\ one(again.t, m.playerOne) /\ one(again.t, m.playerTwo)

\* the bracket is being played: an elimination tournament after start, or
\* the playoffs of a Swiss or round-robin tournament
BracketStage == (IsElimination /\ status = "active") \/ status = "playoffs"

\* a step that records a result on match i, a match without winnersPath: the
\* match was active and is now inactive with a result
TerminalReport(i) ==
    /\ i <= Len(matches')
    /\ matches[i].winnersPath = Null
    /\ matches[i].active
    /\ ~matches'[i].active
    /\ matches'[i].result # EmptyResult

\* C8: in an elimination tournament or a playoff stage (status active,
\* respectively playoffs) the status becomes finished exactly in the step that
\* records a result on a match whose winnersPath is none (a reportResult, or
\* the forfeit that removePlayer reports on that match), and in no other step.
FinishedExactlyAtTerminalReport ==
    [][BracketStage =>
          (status' = "finished" <=> \E i \in 1..Len(matches) : TerminalReport(i))]_vars

\* C8 happens: a report on the match without winnersPath has just finished an
\* elimination tournament or a playoff stage
TerminalReportFinished ==
    /\ IsElimination \/ cfg.playoffs # "none"
    /\ status = "finished"
    /\ last = [op |-> "reportResult", threw |-> FALSE]
    /\ \E i \in 1..Len(matches) :
          /\ matches[i].winnersPath = Null
          /\ ~matches[i].active
          /\ matches[i].result # EmptyResult

\* C9: in an elimination stage, whatever the reports and withdrawals, if every
\* active match is reported in the end the tournament reaches status finished:
\* no unreported match stays inactive for ever, waiting for an opponent or for
\* its activation.  Stated on the states: a started elimination tournament
\* that is not finished has an active match (in a state without one nothing
\* is left to report, and finished is never reached).
UnfinishedHasActiveMatch ==
    IsElimination /\ status = "active" => AnyActiveMatch(T)

\* C10: after a removePlayer(p) that succeeds in an elimination tournament or
\* a playoff stage, whatever the bracket round of p's pending match, no active
\* match has p in a slot (the pending match is recorded as a forfeit and the
\* opponent moves on).
RemovedPlayerHasNoActiveMatch ==
    \A id \in PlayerIds :
        LET removed == RemovePlayerFrom(T, id) IN
        BracketStage /\ ~removed.threw
            => \A i \in 1..Len(removed.t.matches) :
                  removed.t.matches[i].active
                      => /\ removed.t.matches[i].playerOne # id
                         /\ removed.t.matches[i].playerTwo # id

\* C11: after registration addPlayer succeeds only in an active Swiss
\* tournament; in status playoffs or finished (Swiss included) and in an
\* active round-robin or elimination tournament it fails and leaves the
\* players as they were.  (The id is new and the player limit is not reached.)
LateAddOnlyInActiveSwiss ==
    \A byes \in BOOLEAN :
        LET added == AddPlayerTo(T, FreshId, byes) IN
        /\ status # "registration"
        /\ ~(cfg.playerLimit > 0 /\ Len(players) = cfg.playerLimit)
        => /\ ~added.threw <=> (cfg.format = "swiss" /\ status = "active")
           /\ added.threw => added.t.players = players

\* a reported match of the playoff bracket: both slots filled, a result
\* recorded, and a next match for its winner
ReportedPlayoffMatch(i) ==
    /\ status = "playoffs"
    /\ ~matches[i].active
    /\ matches[i].playerOne # Null /\ matches[i].playerTwo # Null
    /\ matches[i].result.playerOneWins + matches[i].result.playerTwoWins > 0
    /\ matches[i].winnersPath # Null

\* C12: after eraseResult on a reported playoff match M, M is active with
\* result (0,0,0), neither participant is in a slot of M's winnersPath or
\* losersPath match, every such match that lost a player is not active, and both
\* participants are active.
PlayoffEraseUndoesAdvance ==
    \A i \in 1..Len(matches) :
        LET m == matches[i]
            out == EraseResult(T, m.id)
            both == {m.playerOne, m.playerTwo}
            targets == {FindIdx(matches, n) : n \in {m.winnersPath, m.losersPath} \ {Null}}
        IN ReportedPlayoffMatch(i) /\ ~out.threw
           => /\ out.t.matches[i].active
              /\ out.t.matches[i].result = EmptyResult
              /\ \A j \in targets \ {0} :
                    /\ out.t.matches[j].playerOne \notin both
                    /\ out.t.matches[j].playerTwo \notin both
                    /\ (\/ out.t.matches[j].playerOne # matches[j].playerOne
                        \/ out.t.matches[j].playerTwo # matches[j].playerTwo)
                       => ~out.t.matches[j].active
              /\ \A k \in 1..Len(players) :
                    players[k].id \in both => out.t.players[k].active

\* C13: after removePlayer(p) succeeds in an active round-robin tournament, no
\* match of a round later than currentRound, the last scheduled round
\* included, has p in a slot.
RemovedPlayerLeavesFutureRounds ==
    \A pid \in PlayerIds :
        LET out == RemovePlayerFrom(T, pid) IN
        cfg.format = "round robin" /\ status = "active" /\ ~out.threw
        => \A i \in 1..Len(out.t.matches) :
              out.t.matches[i].round > out.t.currentRound
              => /\ out.t.matches[i].playerOne # pid
                 /\ out.t.matches[i].playerTwo # pid

\* player pid has an active match in the current round of the Swiss or
\* round-robin stage
HasActiveStageMatch(pid) ==
    /\ cfg.format \in {"swiss", "round robin"}
    /\ status = "active"
    /\ CurrentMatchOf(T, pid) # 0
    /\ matches[CurrentMatchOf(T, pid)].active

\* C14: after removePlayer(p) succeeds in the active Swiss or round-robin
\* stage p is inactive; an active current-round match of p is now inactive with
\* 0 wins for p, ceil(bestOf/2) wins for the opponent and 0 draws, the opponent
\* has pointsForWin more match points and p's match points are unchanged.
RemovalForfeitsCurrentMatch ==
    \A pid \in PlayerIds :
        LET out == RemovePlayerFrom(T, pid)
            pi == FindIdx(players, pid)
            mi == CurrentMatchOf(T, pid)
            m == matches[mi]
            after == out.t.matches[mi]
            oi == FindIdx(players, IF m.playerOne = pid THEN m.playerTwo ELSE m.playerOne)
        IN cfg.format \in {"swiss", "round robin"} /\ status = "active" /\ ~out.threw
           => /\ ~out.t.players[pi].active
              /\ HasActiveStageMatch(pid)
                 => /\ ~after.active
                    /\ after.result.draws = 0
                    /\ IF m.playerOne = pid
                       THEN /\ after.result.playerOneWins = 0
                            /\ after.result.playerTwoWins = (cfg.bestOf + 1) \div 2
                       ELSE /\ after.result.playerTwoWins = 0
                            /\ after.result.playerOneWins = (cfg.bestOf + 1) \div 2
                    /\ out.t.players[oi].matchPoints = players[oi].matchPoints + cfg.pointsForWin
                    /\ out.t.players[pi].matchPoints = players[pi].matchPoints

\* a player with an active current-round match has just been removed
RemovedWithActiveMatch ==
    /\ last = [op |-> "removePlayer", threw |-> FALSE]
    /\ cfg.format = "swiss" /\ status = "active"
    /\ \E k \in 1..Len(players), i \in 1..Len(matches) :
          /\ ~players[k].active
          /\ matches[i].round = currentRound
          /\ ~matches[i].active
          /\ \/ /\ matches[i].playerOne = players[k].id
                /\ matches[i].result = [playerOneWins |-> 0, playerTwoWins |-> 2, draws |-> 0]
             \/ /\ matches[i].playerTwo = players[k].id
                /\ matches[i].result = [playerOneWins |-> 2, playerTwoWins |-> 0, draws |-> 0]

\* C15: eraseResult on an active match, or on a match with an empty slot,
\* fails and leaves the tournament unchanged, in every status.
EraseOfActiveOrByeChangesNothing ==
    \A i \in 1..Len(matches) :
        LET out == EraseResult(T, matches[i].id) IN
        /\ ~IsElimination
        /\ \/ matches[i].active
           \/ matches[i].playerOne = Null
           \/ matches[i].playerTwo = Null
        => out.threw /\ out.t = T

\* results are processed by Tournament.eliminationResult
EliminationPath == IsElimination \/ status = "playoffs"

\* C16: a report of equal game wins on a match processed by the elimination
\* path (an elimination tournament, or Swiss or round-robin in playoffs) fails
\* and changes nothing.
EqualWinsRefusedInBracket ==
    \A mid \in MatchIds \cup {UnknownMatch}, w \in 0..MaxWins, d \in 0..MaxWins :
        LET out == Result(T, mid, <<w, w, d>>) IN
        EliminationPath => out.threw /\ out.t = T

\* a bracket with an active match and a reported match, on both of which
\* equal wins are refused
EqualWinsOnBracketMatches ==
    /\ EliminationPath
    /\ \E i, j \in 1..Len(matches) :
          /\ matches[i].active
          /\ ~matches[j].active
          /\ matches[j].result.playerOneWins + matches[j].result.playerTwoWins > 0
          /\ matches[j].winnersPath # Null
          /\ Result(T, matches[i].id, <<1, 1, 0>>).threw
          /\ Result(T, matches[j].id, <<1, 1, 0>>).threw

\* an external abort: the status of the tournament set to aborted
Aborted(t) == [t EXCEPT !.status = "aborted"]

\* C17: nextRound fails and changes nothing while any match is active, and
\* whenever the status is not active (registration, playoffs, finished,
\* aborted).
NextRoundRefused ==
    \A t \in {T, Aborted(T)} :
        LET out == NextRoundOf(t) IN
        ~IsElimination /\ (AnyActiveMatch(t) \/ t.status # "active")
        => out.threw /\ out.t = t

\* nextRound is refused for the status alone: no match is active
NextRoundRefusedForStatus ==
    /\ status \in {"playoffs", "finished"}
    /\ ~AnyActiveMatch(T)
    /\ NextRoundOf(T).threw

\* C18: in a Swiss tournament without playoffs, status active implies
\* 1 <= currentRound <= rounds; a successful nextRound adds exactly one to
\* currentRound when currentRound < rounds, and when currentRound = rounds it
\* sets the status to finished, creates no match and leaves currentRound.
SwissRoundsWithinBounds ==
    cfg.format = "swiss" /\ cfg.playoffs = "none"
    => /\ status = "active" => 1 <= currentRound /\ currentRound <= rounds
       /\ LET out == NextRoundOf(T) IN
          ~out.threw
          => IF currentRound < rounds
             THEN out.t.currentRound = currentRound + 1
             ELSE IF currentRound = rounds
             THEN /\ out.t.status = "finished"
                  /\ out.t.matches = matches
                  /\ out.t.currentRound = currentRound
             ELSE TRUE

\* the players a format needs to start
MinPlayers == IF cfg.format = "swiss" THEN 8 ELSE 4

RemovePlayerRefusedOrUnregisters ==
    \A t \in {T, Aborted(T)}, id \in PlayerIds \cup {FreshId} :
        LET out == RemovePlayerFrom(t, id)
            pi == FindIdx(t.players, id)
        IN /\ (\/ pi = 0
               \/ t.status \in {"finished", "aborted"}
               \/ ~t.players[pi].active)
              => out.threw /\ out.t = t
           /\ (t.status = "registration" /\ pi # 0 /\ t.players[pi].active)
              => /\ ~out.threw
                 /\ out.t.players = SelectSeq(t.players, LAMBDA p : p.id # id)
                 /\ Len(out.t.players) = Len(t.players) - 1
                 /\ out.t.matches = t.matches
                 /\ out.t.status = t.status
                 /\ out.t.currentRound = t.currentRound
                 /\ out.t.rounds = t.rounds

\* a finished tournament with an active and an inactive player: removePlayer
\* is refused for each of them and for an unknown id
RemovalRefusedWhenFinished ==
    /\ status = "finished"
    /\ \E k \in 1..Len(players) : players[k].active
    /\ \E k \in 1..Len(players) : ~players[k].active
    /\ \A id \in PlayerIds \cup {FreshId} : RemovePlayerFrom(T, id).threw

\* the match points of all players of tournament t together
TotalMatchPoints(t) == SumSeq([k \in 1..Len(t.players) |-> t.players[k].matchPoints])

\* C21: a report of a result on an active match changes the match points of
\* its two participants by pointsForWin in all when one player has more game
\* wins, and by 2 * pointsForDraw when the game wins are equal (standard path);
\* the match points of every other player are unchanged.
ReportAwardsMatchPoints ==
    \A i \in 1..Len(matches), res \in Results :
        LET m == matches[i]
            out == Result(T, m.id, res)
        IN m.active /\ ~out.threw
           => /\ TotalMatchPoints(out.t) - TotalMatchPoints(T)
                    = IF res[1] # res[2] THEN cfg.pointsForWin ELSE 2 * cfg.pointsForDraw
              /\ \A k \in 1..Len(players) :
                    players[k].id \notin {m.playerOne, m.playerTwo}
                    => out.t.players[k].matchPoints = players[k].matchPoints

\* a draw has just been reported on the standard path
DrawReported ==
    /\ last = [op |-> "reportResult", threw |-> FALSE]
    /\ status = "active"
    /\ \E i \in 1..Len(matches) :
          /\ ~matches[i].active
          /\ matches[i].result.playerOneWins = matches[i].result.playerTwoWins
          /\ matches[i].result.draws > 0
          /\ \A k \in 1..Len(players) :
                players[k].id \in {matches[i].playerOne, matches[i].playerTwo}
                => players[k].matchPoints >= cfg.pointsForDraw

\* the matches between two players on which a result has been reported
ReportedMatches ==
    {i \in 1..Len(matches) :
        /\ ~matches[i].active
        /\ matches[i].playerOne # Null /\ matches[i].playerTwo # Null
        /\ matches[i].result.playerOneWins + matches[i].result.playerTwoWins > 0}

\* C22: in single elimination with n players, without withdrawals and
\* re-reports, the status is finished after exactly n - 1 reports on non-bye
\* matches (one more when the consolation match is played), and never earlier.
SingleEliminationEndsAfterAllMatches ==
    cfg.format = "single elimination" /\ status # "registration" /\ used = 0
    => (status = "finished"
        <=> Cardinality(ReportedMatches)
               = Len(players) - 1 + (IF cfg.consolation THEN 1 ELSE 0))

\* the slots of match m that hold player pid
SlotsOf(m, pid) ==
    (IF m.playerOne = pid THEN {1} ELSE {}) \cup (IF m.playerTwo = pid THEN {2} ELSE {})

\* C23: after a report on an active elimination match M whose winnersPath is
\* a match W, the winner is in exactly one slot of W (playerOne if it was
\* empty, otherwise playerTwo) and W is active if and only if both of its
\* slots are filled.
WinnerAdvancesIntoFirstEmptySlot ==
    \A i \in 1..Len(matches), res \in Results :
        LET m == matches[i]
            out == Result(T, m.id, res)
            wi == FindIdx(matches, m.winnersPath)
            winner == IF res[1] > res[2] THEN m.playerOne ELSE m.playerTwo
            W == out.t.matches[wi]
        IN /\ EliminationPath /\ m.active /\ m.winnersPath # Null /\ wi # 0
           /\ res[1] # res[2] /\ res[3] = 0 /\ ~out.threw
           => /\ SlotsOf(W, winner)
                    = IF matches[wi].playerOne = Null THEN {1} ELSE {2}
              /\ W.active <=> (W.playerOne # Null /\ W.playerTwo # Null)

\* match m of tournament t has no result yet
Unreported(m) == m.result.playerOneWins + m.result.playerTwoWins = 0

\* C24: after a report on an active elimination match M, a loser without
\* losersPath is inactive and in no slot of an unreported match; a loser with
\* losersPath L stays active and is in exactly one slot of L (the first empty
\* one), and L is active once both of its slots are filled.
LoserLeavesOrDrops ==
    \A i \in 1..Len(matches), res \in Results :
        LET m == matches[i]
            out == Result(T, m.id, res)
            li == FindIdx(matches, m.losersPath)
            loser == IF res[1] > res[2] THEN m.playerTwo ELSE m.playerOne
            lk == FindIdx(players, loser)
            L == out.t.matches[li]
        IN /\ EliminationPath /\ m.active /\ lk # 0
           /\ res[1] # res[2] /\ res[3] = 0 /\ ~out.threw
           => IF m.losersPath = Null
              THEN /\ ~out.t.players[lk].active
                   /\ \A j \in 1..Len(out.t.matches) :
                         j # i /\ Unreported(out.t.matches[j])
                         => SlotsOf(out.t.matches[j], loser) = {}
              ELSE /\ li # 0
                   /\ out.t.players[lk].active
                   /\ SlotsOf(L, loser)
                         = IF matches[li].playerOne = Null THEN {1} ELSE {2}
                   /\ (L.playerOne # Null /\ L.playerTwo # Null) => L.active

\* the match whose losers' bracket routing a withdrawal of pid repairs: the
\* losersPath target of pid's match of the current round; 0 when there is none
DropTarget(pid) ==
    IF CurrentMatchOf(T, pid) = 0 THEN 0
    ELSE FindIdx(matches, matches[CurrentMatchOf(T, pid)].losersPath)

\* C25: in double elimination, when p withdraws and the losersPath target of
\* p's winners-bracket match holds no player other than p, afterwards that
\* target has both slots empty and is inactive, the other match that fed it
\* routes its outcome to the target's winnersPath, and p is in no slot of an
\* unreported match.
WithdrawalCollapsesEmptyTarget ==
    \A pid \in PlayerIds :
        LET out == RemovePlayerFrom(T, pid)
            mi == CurrentMatchOf(T, pid)
            ti == DropTarget(pid)
            tgt == matches[ti]
        IN /\ cfg.format = "double elimination" /\ status = "active"
           /\ ti # 0
           /\ tgt.playerOne \in {Null, pid} /\ tgt.playerTwo \in {Null, pid}
           /\ ~out.threw
           => /\ out.t.matches[ti].playerOne = Null
              /\ out.t.matches[ti].playerTwo = Null
              /\ ~out.t.matches[ti].active
              /\ \E j \in 1..Len(matches) :
                    /\ j # mi
                    /\ \/ /\ matches[j].winnersPath = tgt.id
                          /\ out.t.matches[j].winnersPath = tgt.winnersPath
                       \/ /\ matches[j].losersPath = tgt.id
                          /\ out.t.matches[j].losersPath = tgt.winnersPath
              /\ \A j \in 1..Len(out.t.matches) :
                    Unreported(out.t.matches[j]) => SlotsOf(out.t.matches[j], pid) = {}

\* the players other than pid in the slots of match m
OthersIn(m, pid) == {m.playerOne, m.playerTwo} \ {Null, pid}

\* C26: in double elimination, when p withdraws and the losersPath target of
\* p's winners-bracket match already holds another player q, afterwards that
\* target is inactive and q is in a slot of the target's winnersPath match,
\* which is active if and only if both of its slots are filled.
WithdrawalAdvancesWaitingPlayer ==
    \A pid \in PlayerIds :
        LET out == RemovePlayerFrom(T, pid)
            ti == DropTarget(pid)
            tgt == matches[ti]
            wi == FindIdx(matches, tgt.winnersPath)
            W == out.t.matches[wi]
        IN /\ cfg.format = "double elimination" /\ status = "active"
           /\ ti # 0 /\ wi # 0
           /\ OthersIn(tgt, pid) # {}
           /\ ~out.threw
           => /\ ~out.t.matches[ti].active
              /\ \A q \in OthersIn(tgt, pid) : SlotsOf(W, q) # {}
              /\ W.active <=> (W.playerOne # Null /\ W.playerTwo # Null)

\* C27: a player added to an active Swiss tournament in round r has exactly
\* one results entry for each round 1..r, so matchCount = r; with byes each
\* entry awards pointsForWin match points and ceil(bestOf/2) * pointsForWin game
\* points and pairingBye is set; with losses each entry awards no match and no
\* game points and counts ceil(bestOf/2) games.
LateEntrantCatchesUp ==
    \A byes \in BOOLEAN :
        LET out == AddPlayerTo(T, FreshId, byes)
            np == out.t.players[Len(out.t.players)]
            half == (cfg.bestOf + 1) \div 2
        IN cfg.format = "swiss" /\ status = "active" /\ ~out.threw
           => /\ np.id = FreshId
              /\ Len(np.results) = currentRound
              /\ \A r \in 1..currentRound : np.results[r].round = r
              /\ np.matchCount = currentRound
              /\ np.gameCount = currentRound * half
              /\ \A r \in 1..currentRound :
                    /\ np.results[r].games = half
                    /\ np.results[r].matchPoints = IF byes THEN cfg.pointsForWin ELSE 0
                    /\ np.results[r].gamePoints = IF byes THEN half * cfg.pointsForWin ELSE 0
              /\ np.matchPoints = IF byes THEN currentRound * cfg.pointsForWin ELSE 0
              /\ np.gamePoints = IF byes THEN currentRound * half * cfg.pointsForWin ELSE 0
              /\ byes => np.pairingBye

\* a player has just been added with byes in the second round of a Swiss
\* tournament
LateEntrantInRoundTwo ==
    /\ cfg.format = "swiss" /\ status = "active" /\ currentRound = 2
    /\ last = [op |-> "addPlayer", threw |-> FALSE]
    /\ players[Len(players)].matchCount = 2
    /\ players[Len(players)].pairingBye

\* the outcome of start (in registration) or of nextRound (after it)
NewRound == IF status = "registration" THEN StartEvent(T) ELSE NextRoundOf(T)

\* match m has exactly one filled slot
OneSlotFilled(m) == (m.playerOne = Null) # (m.playerTwo = Null)

\* the player in the filled slot of a match with one filled slot
Present(m) == IF m.playerTwo = Null THEN m.playerOne ELSE m.playerTwo

\* C28: after start or a round-creating nextRound in Swiss or round-robin,
\* every match of the new current round with exactly one filled slot is
\* inactive, its result has ceil(bestOf/2) game wins for the present player, and
\* that player has gained exactly one results entry, with outcome bye and
\* pointsForWin match points, and has pairingBye = TRUE; nobody else gains an
\* entry.
ByesAreMaterialised ==
    LET out == NewRound
        byes == {i \in 1..Len(out.t.matches) :
                    /\ out.t.matches[i].round = out.t.currentRound
                    /\ OneSlotFilled(out.t.matches[i])}
        half == (cfg.bestOf + 1) \div 2
    IN /\ cfg.format \in {"swiss", "round robin"}
       /\ status \in {"registration", "active"}
       /\ ~out.threw
       /\ out.t.status = "active" /\ out.t.currentRound = currentRound + 1
       => /\ \A i \in byes :
                LET m == out.t.matches[i]
                    k == FindIdx(players, Present(m))
                    after == out.t.players[k]
                IN /\ ~m.active
                   /\ IF m.playerTwo = Null
                      THEN m.result.playerOneWins = half
                      ELSE m.result.playerTwoWins = half
                   /\ k # 0
                   /\ Len(after.results) = Len(players[k].results) + 1
                   /\ after.results[Len(after.results)].outcome = "bye"
                   /\ after.results[Len(after.results)].match = m.id
                   /\ after.results[Len(after.results)].matchPoints = cfg.pointsForWin
                   /\ after.matchPoints = players[k].matchPoints + cfg.pointsForWin
                   /\ after.pairingBye
          /\ \A k \in 1..Len(players) :
                (\A i \in byes : Present(out.t.matches[i]) # players[k].id)
                => out.t.players[k].results = players[k].results

\* the second round of a Swiss tournament has just been created with a bye
ByeInSecondRound ==
    /\ cfg.format = "swiss" /\ status = "active" /\ currentRound = 2
    /\ last = [op |-> "nextRound", threw |-> FALSE]
    /\ \E i \in 1..Len(matches) :
          /\ matches[i].round = 2
          /\ OneSlotFilled(matches[i])
          /\ ~matches[i].active
          /\ matches[i].result.playerOneWins = 2
          /\ players[FindIdx(players, Present(matches[i]))].pairingBye

\* the results entry the claim describes for a player with own game wins
\* against other, d draws, on match m against opp
ExpectedEntry(m, own, other, d, opp) ==
    [match |-> m.id, round |-> m.round, opponent |-> opp,
     outcome |-> CASE own > other -> "win" [] own < other -> "loss" [] OTHER -> "draw",
     matchPoints |-> CASE own > other -> cfg.pointsForWin
                       [] own < other -> 0
                       [] OTHER -> cfg.pointsForDraw,
     gamePoints |-> own * cfg.pointsForWin + d * cfg.pointsForDraw,
     games |-> own + other + d]

\* C29: a standard-path report (w1, w2, d) on a match gives each participant
\* exactly one new results entry: outcome win, loss or draw by the game wins,
\* matchPoints pointsForWin, 0 or pointsForDraw, gamePoints = own wins *
\* pointsForWin + d * pointsForDraw, games = w1 + w2 + d; the match records
\* (w1, w2, d) and becomes inactive.  (On an active match the entry is added
\* to the entries the player had; on a reported match it is the last entry.)
StandardReportRecordsEntries ==
    \A i \in 1..Len(matches), res \in Results :
        LET m == matches[i]
            out == Result(T, m.id, res)
            k1 == FindIdx(players, m.playerOne)
            k2 == FindIdx(players, m.playerTwo)
            e1 == ExpectedEntry(m, res[1], res[2], res[3], m.playerTwo)
            e2 == ExpectedEntry(m, res[2], res[1], res[3], m.playerOne)
            r1 == out.t.players[k1].results
            r2 == out.t.players[k2].results
        IN ~EliminationPath /\ ~out.threw
           => /\ k1 # 0 /\ k2 # 0
              /\ r1 # <<>> /\ r1[Len(r1)] = e1
              /\ r2 # <<>> /\ r2[Len(r2)] = e2
              /\ m.active => /\ r1 = Append(players[k1].results, e1)
                             /\ r2 = Append(players[k2].results, e2)
              /\ out.t.matches[i].result
                    = [playerOneWins |-> res[1], playerTwoWins |-> res[2], draws |-> res[3]]
              /\ ~out.t.matches[i].active

\* a result with a draw has just been reported on the standard path and both
\* participants hold its entry
EntriesOfDrawnGame ==
    /\ ~EliminationPath
    /\ last = [op |-> "reportResult", threw |-> FALSE]
    /\ \E i \in 1..Len(matches) :
          /\ ~matches[i].active
          /\ matches[i].result.draws = 1
          /\ \A k \in 1..Len(players) :
                players[k].id \in {matches[i].playerOne, matches[i].playerTwo}
                => /\ players[k].results # <<>>
                   /\ players[k].results[Len(players[k].results)].match = matches[i].id
                   /\ players[k].results[Len(players[k].results)].games
                         = matches[i].result.playerOneWins
                           + matches[i].result.playerTwoWins + 1

\* C30: after a successful nextRound in round-robin that does not end the
\* stage, the active matches are exactly the matches of the new currentRound
\* that have both slots filled; no match of another round is active.
NextRoundActivatesItsMatches ==
    LET out == NextRoundOf(T) IN
    cfg.format = "round robin" /\ ~out.threw /\ out.t.status = "active"
    => /\ out.t.currentRound = currentRound + 1
       /\ \A i \in 1..Len(out.t.matches) :
             out.t.matches[i].active
             <=> /\ out.t.matches[i].round = out.t.currentRound
                 /\ out.t.matches[i].playerOne # Null
                 /\ out.t.matches[i].playerTwo # Null

\* the second round of a round-robin tournament has just been opened: its
\* matches are active and those of the other rounds are not
SecondRoundOpened ==
    /\ cfg.format = "round robin" /\ status = "active" /\ currentRound = 2
    /\ last = [op |-> "nextRound", threw |-> FALSE]
    /\ \E i \in 1..Len(matches) : matches[i].round = 2 /\ matches[i].active
    /\ \E i \in 1..Len(matches) : matches[i].round = 3 /\ ~matches[i].active
    /\ \A i \in 1..Len(matches) : matches[i].active => matches[i].round = 2

\* C31: when nextRound moves a Swiss or round-robin tournament from active to
\* playoffs, currentRound grows by one; with a points cut of limit L > 0 a
\* player is active afterwards exactly if they were active and have at least
\* L match points; with a rank cut of limit k > 0 at most k players are active
CutOnEnteringPlayoffs ==
    LET out == NextRoundOf(T) IN
    (~IsElimination /\ status = "active" /\ ~out.threw /\ out.t.status = "playoffs") =>
        /\ out.t.currentRound = currentRound + 1
        /\ Len(out.t.players) = Len(players)
        /\ (cfg.cut.type = "points" /\ cfg.cut.limit > 0) =>
              \A i \in 1..Len(players) :
                  out.t.players[i].active =
                      (players[i].active /\ players[i].matchPoints >= cfg.cut.limit)
        /\ (cfg.cut.type = "rank" /\ cfg.cut.limit > 0) =>
              Cardinality({i \in 1..Len(players) : out.t.players[i].active})
                  <= cfg.cut.limit

\* the playoffs were entered after a points cut that removed a player and
\* kept a player with exactly the limit
PointsCutApplied ==
    /\ last = [op |-> "nextRound", threw |-> FALSE]
    /\ status = "playoffs"
    /\ cfg.cut.type = "points"
    /\ \E i, j \in 1..Len(players) :
          /\ ~players[i].active /\ players[i].matchPoints < cfg.cut.limit
          /\ players[j].active /\ players[j].matchPoints = cfg.cut.limit

\* what a re-report is compared on: slot occupancy and active flag of every
\* match, active flag and scoreboard of every player
Occupancy(t) ==
    [matches |-> [i \in 1..Len(t.matches) |->
                    <<t.matches[i].playerOne, t.matches[i].playerTwo,
                      t.matches[i].active>>],
     players |-> [i \in 1..Len(t.players) |->
                    <<t.players[i].active, t.players[i].matchCount,
                      t.players[i].matchPoints, t.players[i].gameCount,
                      t.players[i].gamePoints>>]]

\* the matches of t that match m routes its winner and its loser to
TargetsOf(t, m) ==
    {j \in 1..Len(t.matches) :
        t.matches[j].id \in ({m.winnersPath, m.losersPath} \ {Null})}

\* C32: in an elimination stage, a report on a match M with a winnersPath
\* followed, while neither target of M is reported, by a report of the
\* opposite winner on M gives the slot occupancy, match active flags, player
\* active flags and scoreboards of the second report alone; the new winner is
\* in a slot of the winnersPath target and the former winner is not (unless
\* the loser is routed to that same match).
ReReportWithOppositeWinner ==
    \A i \in 1..Len(matches), r1 \in Results, r2 \in Results :
        LET m == matches[i]
            first == Result(T, m.id, r1)
            again == Result(first.t, m.id, r2)
            alone == Result(T, m.id, r2)
            w == FindIdx(matches, m.winnersPath)
            newWinner == IF r2[1] > r2[2] THEN m.playerOne ELSE m.playerTwo
            formerWinner == IF r1[1] > r1[2] THEN m.playerOne ELSE m.playerTwo
        IN (/\ BracketStage /\ m.active /\ Unreported(m)
            /\ m.winnersPath # Null
            /\ r1[3] = 0 /\ r2[3] = 0
            /\ (r1[1] > r1[2]) = (r2[2] > r2[1]) /\ r1[1] # r1[2] /\ r2[1] # r2[2]
            /\ ~first.threw
            /\ \A j \in TargetsOf(first.t, m) : Unreported(first.t.matches[j]))
           => /\ ~again.threw /\ ~alone.threw
              /\ Occupancy(again.t) = Occupancy(alone.t)
              /\ SlotsOf(again.t.matches[w], newWinner) # {}
              /\ m.losersPath # m.winnersPath =>
                    SlotsOf(again.t.matches[w], formerWinner) = {}

\* C33: in the active Swiss/round-robin stage a player deactivated by
\* removePlayer is still inactive after any reportResult (first report or
\* re-report, on any match, the player's own included) and any eraseResult.
RemovedPlayerStaysInactive ==
    \A pi \in 1..Len(players), mid \in MatchIds \cup {UnknownMatch}, res \in Results :
        LET reported == Result(T, mid, res)
            erased == EraseResult(T, mid)
        IN (InStage /\ ~players[pi].active)
              => /\ ~reported.t.players[pi].active
                 /\ ~erased.t.players[pi].active

\* the place of a status in registration -> active -> playoffs -> finished
StatusRank(st) ==
    CASE st = "registration" -> 0
      [] st = "active" -> 1
      [] st = "playoffs" -> 2
      [] st = "finished" -> 3

\* C34: no call moves the status back along registration -> active ->
\* playoffs -> finished or changes it once it is finished, and a start on a
\* tournament that has left registration neither increments currentRound nor
\* adds matches.
StatusOnlyMovesForward ==
    [][/\ StatusRank(status') >= StatusRank(status)
       /\ status = "finished" => status' = "finished"
       /\ (status # "registration" /\ last'.op = "start")
             => currentRound' = currentRound /\ matches' = matches]_vars

\* player pid is in a slot of an unreported match of t
Placed(t, pid) ==
    \E i \in 1..Len(t.matches) :
        Unreported(t.matches[i]) /\ SlotsOf(t.matches[i], pid) # {}

\* C35: a removePlayer(p) that succeeds in an elimination stage and does not
\* end the tournament leaves every other player that was in a slot of an
\* unreported match in a slot of an unreported match.
WithdrawalKeepsOthersPlaced ==
    \A pid \in PlayerIds :
        LET out == RemovePlayerFrom(T, pid) IN
        (BracketStage /\ ~out.threw /\ out.t.status # "finished")
            => \A q \in PlayerIds \ {pid} :
                  Placed(T, q) => Placed(out.t, q)

\* C36: after a removePlayer(p) that succeeds in a status other than
\* registration, in every format, p is inactive: a second removePlayer(p)
\* fails and the standings of the active players do not list p.
RemovedPlayerIsInactive ==
    \A pid \in PlayerIds :
        LET out == RemovePlayerFrom(T, pid)
            st == Standings(out.t, TRUE)
        IN (status # "registration" /\ ~out.threw)
              => /\ ~out.t.players[FindIdx(out.t.players, pid)].active
                 /\ RemovePlayerFrom(out.t, pid).threw
                 /\ \A k \in 1..Len(st) : st[k].id # pid

\* the scoreboards of the players of t
Scoreboards(t) ==
    [i \in 1..Len(t.players) |->
        <<t.players[i].matchCount, t.players[i].matchPoints,
          t.players[i].gameCount, t.players[i].gamePoints, t.players[i].results>>]

\* match m is inactive and no result was ever recorded for it
NeverRecorded(m) ==
    /\ ~m.active
    /\ m.result = EmptyResult
    /\ \A i \in 1..Len(players) : FindResult(players[i].results, m.id) = 0

\* C37: reportResult and eraseResult on an inactive match without a recorded
\* result (a match of a round not yet started, a bracket match still waiting
\* for a player, a match deactivated by a withdrawal) fail, leave the match
\* inactive and leave every scoreboard as it was.
UnrecordedInactiveMatchIsRefused ==
    \A i \in 1..Len(matches), res \in Results :
        LET m == matches[i]
            reported == Result(T, m.id, res)
            erased == IF IsElimination THEN Throw(T) ELSE EraseResult(T, m.id)
        IN (status \in {"active", "playoffs"} /\ NeverRecorded(m)
            /\ (EliminationPath => res[3] = 0 /\ res[1] # res[2]))
              => /\ reported.threw /\ erased.threw
                 /\ ~reported.t.matches[i].active /\ ~erased.t.matches[i].active
                 /\ Scoreboards(reported.t) = Scoreboards(T)
                 /\ Scoreboards(erased.t) = Scoreboards(T)

====
